---- MODULE Spec2Model ----
(***************************************************************************)
(* State-machine model of the NFT contract in src/contract/src/lib.rs.     *)
(*                                                                         *)
(* The contract is a thin wrapper: `Contract.tokens` is a                  *)
(* near_contract_standards NonFungibleToken, nft_mint / nft_mint_default   *)
(* call `self.tokens.internal_mint` (lib.rs:99, 126) and the three         *)
(* impl_non_fungible_token_* macros (lib.rs:147-149) expose nft_transfer,  *)
(* nft_token, nft_approve, nft_revoke, nft_revoke_all, nft_is_approved and *)
(* the enumeration views.  Each handler below is the behaviour of the      *)
(* library function the wrapper delegates to; a panic aborts the call and  *)
(* the host discards every write and every scheduled promise of the call.  *)
(* nft_approve is modelled without a msg.  nft_transfer_call moves the     *)
(* token and leaves a promise pending: the receiver's nft_on_transfer runs *)
(* in another contract and its answer comes back, after any number of      *)
(* other calls, as the callback nft_resolve_transfer.                      *)
(***************************************************************************)
EXTENDS Integers, Sequences, FiniteSets, TLC

VARIABLES
    tokens,   \* Contract.tokens, the NonFungibleToken
    last,     \* the call being returned (Idle between calls)
    calls,    \* committed calls so far
    minted,   \* history: the token ids whose mint has succeeded
    issued,   \* history: per token, the approval ids issued, in order
    owners,   \* history: per token, its successive owners, in order, in the
              \* runs that keep it
    pending,  \* the nft_resolve_transfer callbacks scheduled and not yet run
    overflow_checks  \* the build's overflow-checks setting, once observed

vars == <<tokens, last, calls, minted, issued, owners, pending, overflow_checks>>

-----------------------------------------------------------------------------
(* Bounds and environment parameters *)

\* number of committed calls a run is followed for
MaxCalls == 4
\* approve is explored while the per-token counter is at most this
MaxApprovalId == 3
\* largest surplus over the required deposit that a caller attaches
MaxExcess == 2
\* env::storage_byte_cost(), scaled down (10^19 yoctoNEAR on chain)
StorageByteCost == 2
\* per-record overhead of the host's key-value storage, scaled down
RecordBytes == 3
\* nft_transfer_call is explored while fewer callbacks than this are pending
MaxPending == 1
\* width in bits of an approval id, scaled down (u64 in the library)
IdBits == 2
\* u64::MAX at that width
U64_MAX == 2^IdBits - 1

\* test_utils::accounts(0..2)
Accounts == {"alice", "bob", "charlie"}
\* get_context: the account the contract is deployed on
current_account_id == "alice"
\* the token ids of the runs, in the order a minter hands them out
TokenOrder == <<"0", "1">>
TokenIds == {TokenOrder[i] : i \in 1..Len(TokenOrder)}
\* titles of the metadata records a caller supplies to nft_mint
SuppliedMetadata == {"Olympus Mons"}

-----------------------------------------------------------------------------
(* Option<T>: None is the empty tuple, Some(v) the one-element tuple *)

None == <<>>
Some(v) == <<v>>
Unwrap(o) == o[1]

EmptyMap == [a \in {} |-> 0]

RECURSIVE SumOver(_, _)
SumOver(f, S) ==
    IF S = {} THEN 0
    ELSE LET x == CHOOSE y \in S : TRUE IN f[x] + SumOver(f, S \ {x})

-----------------------------------------------------------------------------
(* Contract::token_metadata / the literal passed by nft_mint_default *)

token_metadata == "NSeven Limited Edition"

Metadata == SuppliedMetadata \cup {token_metadata}

(* Contract::new: an empty NonFungibleToken owned by owner_id, with the     *)
(* metadata, enumeration and approval extensions all switched on.           *)
new(owner_id) ==
    [ owner_id               |-> owner_id,
      owner_by_id            |-> [t \in TokenIds |-> None],
      token_metadata_by_id   |-> [t \in TokenIds |-> None],
      tokens_per_owner       |-> [a \in Accounts |-> {}],
      approvals_by_id        |-> [t \in TokenIds |-> None],
      next_approval_id_by_id |-> [t \in TokenIds |-> None] ]

-----------------------------------------------------------------------------
(* Storage footprint and deposit accounting *)

\* utils::bytes_for_approved_account_id: borsh length prefix + u64 id
bytes_for_approved_account_id(account_id) == Len(account_id) + 4 + 8

\* bytes of the owner_by_id entry and of the token_metadata_by_id entry
OwnerStorage(token_id, owner) ==
    IF owner = None THEN 0 ELSE RecordBytes + Len(token_id) + Len(Unwrap(owner))

MetadataStorage(token_id, metadata) ==
    IF metadata = None THEN 0 ELSE RecordBytes + Len(token_id) + Len(Unwrap(metadata))

\* bytes an approvals map of a token occupies (nothing when the key is absent)
ApprovalsStorage(token_id, approvals) ==
    IF approvals = None THEN 0
    ELSE RecordBytes + Len(token_id) + 4
         + SumOver([a \in DOMAIN Unwrap(approvals) |-> bytes_for_approved_account_id(a)],
                   DOMAIN Unwrap(approvals))

\* bytes of the next_approval_id_by_id entry of a token
NextApprovalIdStorage(token_id, next) ==
    IF next = None THEN 0 ELSE RecordBytes + Len(token_id) + 8

\* bytes of an owner's enumeration set
OwnerSetStorage(owner, set) ==
    IF set = {} THEN 0
    ELSE RecordBytes + Len(owner) + SumOver([t \in set |-> Len(t)], set)

\* env::storage_usage(): the bytes the contract's collections occupy
env_storage_usage(self) ==
      SumOver([t \in TokenIds |->
                  OwnerStorage(t, self.owner_by_id[t])
                + MetadataStorage(t, self.token_metadata_by_id[t])
                + ApprovalsStorage(t, self.approvals_by_id[t])
                + NextApprovalIdStorage(t, self.next_approval_id_by_id[t])], TokenIds)
    + SumOver([a \in Accounts |-> OwnerSetStorage(a, self.tokens_per_owner[a])], Accounts)

\* utils::refund_deposit_to_account: the deposit must cover the bytes used;
\* the surplus is sent back only when it exceeds one yoctoNEAR.
refund_deposit_to_account(storage_used, account_id, attached_deposit) ==
    LET required_cost == StorageByteCost * storage_used
        refund        == attached_deposit - required_cost
    IN  IF ~(required_cost <= attached_deposit)
        THEN [ok |-> FALSE, refunds |-> <<>>]
        ELSE [ok |-> TRUE,
              refunds |-> IF refund > 1
                          THEN <<[receiver |-> account_id, amount |-> refund]>>
                          ELSE <<>>]

\* utils::refund_approved_account_ids_iter: pays the formula cost of the
\* released approvals to account_id
refund_approved_account_ids(account_id, approved) ==
    LET storage_released ==
            SumOver([a \in approved |-> bytes_for_approved_account_id(a)], approved)
    IN  <<[receiver |-> account_id, amount |-> storage_released * StorageByteCost]>>

-----------------------------------------------------------------------------
(* Outcome of running a handler body: the result ("ok" or the panic         *)
(* message), the contract state as the body left it, the promises it        *)
(* scheduled and its return value.                                          *)

Outcome(result, self, refunds, ret) ==
    [result |-> result, tokens |-> self, refunds |-> refunds, ret |-> ret]

Panic(msg, self) == Outcome(msg, self, <<>>, None)

ERR_UNIQUE        == "token_id must be unique"
ERR_STORAGE       == "Must attach yoctoNEAR to cover storage"
ERR_ONE_YOCTO     == "Requires attached deposit of exactly 1 yoctoNEAR"
ERR_LEAST_YOCTO   == "Requires attached deposit of at least 1 yoctoNEAR"
ERR_NOT_FOUND     == "Token not found"
ERR_UNAUTHORIZED  == "Unauthorized"
ERR_NOT_APPROVED  == "Sender not approved"
ERR_APPROVAL_ID   == "The actual approval_id is different from the given approval_id"
ERR_SAME_OWNER    == "Current and next owner must differ"
ERR_NOT_OWNER     == "Predecessor must be token owner."
ERR_OVERFLOW      == "attempt to add with overflow"
ERR_GAS           == "More gas is required"

Token(token_id, owner_id, metadata, approved_account_ids) ==
    [token_id |-> token_id, owner_id |-> owner_id, metadata |-> metadata,
     approved_account_ids |-> approved_account_ids]

\* The host's treatment of a finished call: a panic discards every write and
\* every promise of the call.
Commit(self, out) ==
    IF out.result = "ok"
    THEN [tokens |-> out.tokens, refunds |-> out.refunds]
    ELSE [tokens |-> self, refunds |-> <<>>]

-----------------------------------------------------------------------------
(* NonFungibleToken::internal_mint, as called by nft_mint / nft_mint_default. *)
(* It makes no check of the predecessor; the deposit is reconciled against   *)
(* the measured storage growth after the three inserts.                      *)

\* internal_mint without the uniqueness check: an existing id is overwritten
internal_mint_overwrite(self, predecessor, deposit, token_id, token_owner_id, metadata) ==
    LET initial_storage_usage == env_storage_usage(self)
        s1 == [self EXCEPT
                 !.owner_by_id[token_id] = Some(token_owner_id),
                 !.token_metadata_by_id[token_id] = Some(metadata),
                 !.tokens_per_owner[token_owner_id] = @ \cup {token_id}]
        used == env_storage_usage(s1) - initial_storage_usage
        r  == refund_deposit_to_account(IF used < 0 THEN 0 ELSE used,
                                        predecessor, deposit)
    IN  IF ~r.ok
        THEN Panic(ERR_STORAGE, s1)
        ELSE Outcome("ok", s1, r.refunds,
                     Some(Token(token_id, token_owner_id, Some(metadata),
                                Some(EmptyMap))))

\* internal_mint that never reconciles the deposit with the storage it used
internal_mint_without_deposit_check(self, predecessor, deposit, token_id, token_owner_id, metadata) ==
    IF self.owner_by_id[token_id] # None
    THEN Panic(ERR_UNIQUE, self)
    ELSE
      LET s1 == [self EXCEPT
                   !.owner_by_id[token_id] = Some(token_owner_id),
                   !.token_metadata_by_id[token_id] = Some(metadata),
                   !.tokens_per_owner[token_owner_id] = @ \cup {token_id}]
      IN  Outcome("ok", s1, <<>>,
                  Some(Token(token_id, token_owner_id, Some(metadata),
                             Some(EmptyMap))))

\* internal_mint recording the caller, not the receiver, as the owner
internal_mint_to_caller(self, predecessor, deposit, token_id, token_owner_id, metadata) ==
    LET initial_storage_usage == env_storage_usage(self) IN
    IF self.owner_by_id[token_id] # None
    THEN Panic(ERR_UNIQUE, self)
    ELSE
      LET s1 == [self EXCEPT
                   !.owner_by_id[token_id] = Some(predecessor),
                   !.token_metadata_by_id[token_id] = Some(metadata),
                   !.tokens_per_owner[predecessor] = @ \cup {token_id}]
          r  == refund_deposit_to_account(
                    env_storage_usage(s1) - initial_storage_usage,
                    predecessor, deposit)
      IN  IF ~r.ok
          THEN Panic(ERR_STORAGE, s1)
          ELSE Outcome("ok", s1, r.refunds,
                       Some(Token(token_id, predecessor, Some(metadata),
                                  Some(EmptyMap))))

internal_mint(self, predecessor, deposit, token_id, token_owner_id, metadata) ==
    LET initial_storage_usage == env_storage_usage(self) IN
    IF self.owner_by_id[token_id] # None
    THEN Panic(ERR_UNIQUE, self)
    ELSE
      LET s1 == [self EXCEPT
                   !.owner_by_id[token_id] = Some(token_owner_id),
                   !.token_metadata_by_id[token_id] = Some(metadata),
                   !.tokens_per_owner[token_owner_id] = @ \cup {token_id}]
          r  == refund_deposit_to_account(
                    env_storage_usage(s1) - initial_storage_usage,
                    predecessor, deposit)
      IN  IF ~r.ok
          THEN Panic(ERR_STORAGE, s1)
          ELSE Outcome("ok", s1, r.refunds,
                       Some(Token(token_id, token_owner_id, Some(metadata),
                                  Some(EmptyMap))))

-----------------------------------------------------------------------------
(* impl_non_fungible_token_core: nft_transfer and nft_token *)

\* internal_transfer_unguarded that leaves the token in the old owner's set
internal_transfer_unguarded_keep(self, token_id, from, to) ==
    LET s1 == [self EXCEPT !.owner_by_id[token_id] = Some(to)]
    IN  [s1 EXCEPT !.tokens_per_owner[to] = @ \cup {token_id}]

\* internal_transfer_unguarded that moves the token between the owners' sets
\* and leaves the owner record as it was
internal_transfer_unguarded_sets_only(self, token_id, from, to) ==
    LET s2 == [self EXCEPT !.tokens_per_owner[from] = @ \ {token_id}]
    IN  [s2 EXCEPT !.tokens_per_owner[to] = @ \cup {token_id}]

\* internal_transfer_unguarded that also forgets the token's approval counter
internal_transfer_unguarded_reset_counter(self, token_id, from, to) ==
    LET s1 == [self EXCEPT !.owner_by_id[token_id] = Some(to),
                           !.next_approval_id_by_id[token_id] = None]
        s2 == [s1 EXCEPT !.tokens_per_owner[from] = @ \ {token_id}]
    IN  [s2 EXCEPT !.tokens_per_owner[to] = @ \cup {token_id}]

\* internal_transfer_unguarded that takes the token from its owner and never
\* records the receiver
internal_transfer_unguarded_lose(self, token_id, from, to) ==
    LET s1 == [self EXCEPT !.owner_by_id[token_id] = None]
    IN  [s1 EXCEPT !.tokens_per_owner[from] = @ \ {token_id}]

\* NonFungibleToken::internal_transfer_unguarded
internal_transfer_unguarded(self, token_id, from, to) ==
    LET s1 == [self EXCEPT !.owner_by_id[token_id] = Some(to)]
        s2 == [s1 EXCEPT !.tokens_per_owner[from] = @ \ {token_id}]
    IN  [s2 EXCEPT !.tokens_per_owner[to] = @ \cup {token_id}]

\* internal_transfer that never compares the supplied approval id
internal_transfer_any_id(self, sender_id, receiver_id, token_id, approval_id) ==
    IF self.owner_by_id[token_id] = None
    THEN Panic(ERR_NOT_FOUND, self)
    ELSE
      LET owner_id == Unwrap(self.owner_by_id[token_id])
          approved_account_ids == self.approvals_by_id[token_id]
          s1 == [self EXCEPT !.approvals_by_id[token_id] = None]
      IN  IF sender_id # owner_id /\ approved_account_ids = None
          THEN Panic(ERR_UNAUTHORIZED, s1)
          ELSE IF sender_id # owner_id
                  /\ sender_id \notin DOMAIN Unwrap(approved_account_ids)
          THEN Panic(ERR_NOT_APPROVED, s1)
          ELSE IF owner_id = receiver_id
          THEN Panic(ERR_SAME_OWNER, s1)
          ELSE Outcome("ok",
                       internal_transfer_unguarded(s1, token_id, owner_id, receiver_id),
                       <<>>, None)

\* internal_transfer without the comparison of the owner and the receiver
internal_transfer_to_owner(self, sender_id, receiver_id, token_id, approval_id) ==
    IF self.owner_by_id[token_id] = None
    THEN Panic(ERR_NOT_FOUND, self)
    ELSE
      LET owner_id == Unwrap(self.owner_by_id[token_id])
          approved_account_ids == self.approvals_by_id[token_id]
          s1 == [self EXCEPT !.approvals_by_id[token_id] = None]
      IN  IF sender_id # owner_id /\ approved_account_ids = None
          THEN Panic(ERR_UNAUTHORIZED, s1)
          ELSE IF sender_id # owner_id
                  /\ sender_id \notin DOMAIN Unwrap(approved_account_ids)
          THEN Panic(ERR_NOT_APPROVED, s1)
          ELSE IF sender_id # owner_id
                  /\ approval_id # None
                  /\ Unwrap(approved_account_ids)[sender_id] # Unwrap(approval_id)
          THEN Panic(ERR_APPROVAL_ID, s1)
          ELSE Outcome("ok",
                       internal_transfer_unguarded(s1, token_id, owner_id, receiver_id),
                       <<>>, None)

\* NonFungibleToken::internal_transfer: the approvals are removed first and
\* the authorisation is decided on the removed map.
internal_transfer(self, sender_id, receiver_id, token_id, approval_id) ==
    IF self.owner_by_id[token_id] = None
    THEN Panic(ERR_NOT_FOUND, self)
    ELSE
      LET owner_id == Unwrap(self.owner_by_id[token_id])
          approved_account_ids == self.approvals_by_id[token_id]
          s1 == [self EXCEPT !.approvals_by_id[token_id] = None]
      IN  IF sender_id # owner_id /\ approved_account_ids = None
          THEN Panic(ERR_UNAUTHORIZED, s1)
          ELSE IF sender_id # owner_id
                  /\ sender_id \notin DOMAIN Unwrap(approved_account_ids)
          THEN Panic(ERR_NOT_APPROVED, s1)
          ELSE IF sender_id # owner_id
                  /\ approval_id # None
                  /\ Unwrap(approved_account_ids)[sender_id] # Unwrap(approval_id)
          THEN Panic(ERR_APPROVAL_ID, s1)
          ELSE IF owner_id = receiver_id
          THEN Panic(ERR_SAME_OWNER, s1)
          ELSE Outcome("ok",
                       internal_transfer_unguarded(s1, token_id, owner_id, receiver_id),
                       <<>>, None)

\* NonFungibleTokenCore::nft_transfer
nft_transfer(self, predecessor, deposit, receiver_id, token_id, approval_id) ==
    IF deposit # 1
    THEN Panic(ERR_ONE_YOCTO, self)
    ELSE internal_transfer(self, predecessor, receiver_id, token_id, approval_id)

\* NonFungibleTokenCore::nft_transfer_call: the transfer is made at once and
\* the call returns the promise of the receiver's nft_on_transfer followed by
\* nft_resolve_transfer(old_owner, receiver_id, token_id, old_approvals)
nft_transfer_call(self, predecessor, deposit, enough_gas, receiver_id, token_id, approval_id) ==
    IF deposit # 1
    THEN Panic(ERR_ONE_YOCTO, self)
    ELSE IF ~enough_gas
    THEN Panic(ERR_GAS, self)
    ELSE
      LET out == internal_transfer(self, predecessor, receiver_id, token_id,
                                   approval_id)
      IN  IF out.result # "ok"
          THEN out
          ELSE [out EXCEPT !.ret =
                   Some([previous_owner_id    |-> Unwrap(self.owner_by_id[token_id]),
                         receiver_id          |-> receiver_id,
                         token_id             |-> token_id,
                         approved_account_ids |-> self.approvals_by_id[token_id]])]

\* NonFungibleTokenResolver::nft_resolve_transfer.  must_revert is what the
\* promise result says: the receiver returned true, returned something that
\* is not a bool, or failed.  The token goes back only if the receiver still
\* owns it; the approvals the receiver has set are refunded and stay in place
\* unless the previous owner's approvals are written over them.
nft_resolve_transfer(self, must_revert, previous_owner_id, receiver_id, token_id, approved_account_ids) ==
    IF ~must_revert
    THEN Outcome("ok", self, <<>>, Some(TRUE))
    ELSE IF self.owner_by_id[token_id] = None
    THEN Outcome("ok", self,
                 IF approved_account_ids # None
                 THEN refund_approved_account_ids(
                          previous_owner_id, DOMAIN Unwrap(approved_account_ids))
                 ELSE <<>>,
                 Some(TRUE))
    ELSE IF Unwrap(self.owner_by_id[token_id]) # receiver_id
    THEN Outcome("ok", self, <<>>, Some(TRUE))
    ELSE
      LET s1 == internal_transfer_unguarded(self, token_id, receiver_id,
                                            previous_owner_id)
          receiver_approvals == s1.approvals_by_id[token_id]
          s2 == IF approved_account_ids # None
                THEN [s1 EXCEPT !.approvals_by_id[token_id] = approved_account_ids]
                ELSE s1
      IN  Outcome("ok", s2,
                  IF receiver_approvals # None
                  THEN refund_approved_account_ids(
                           receiver_id, DOMAIN Unwrap(receiver_approvals))
                  ELSE <<>>,
                  Some(FALSE))

\* NonFungibleTokenCore::nft_token
nft_token(self, token_id) ==
    IF self.owner_by_id[token_id] = None
    THEN None
    ELSE Some(Token(token_id,
                    Unwrap(self.owner_by_id[token_id]),
                    self.token_metadata_by_id[token_id],
                    IF self.approvals_by_id[token_id] = None
                    THEN Some(EmptyMap)
                    ELSE self.approvals_by_id[token_id]))

-----------------------------------------------------------------------------
(* impl_non_fungible_token_approval *)

\* nft_approve whose first approval id is 0
nft_approve_from_zero(self, predecessor, deposit, token_id, account_id) ==
    IF ~(deposit >= 1)
    THEN Panic(ERR_LEAST_YOCTO, self)
    ELSE IF self.owner_by_id[token_id] = None
    THEN Panic(ERR_NOT_FOUND, self)
    ELSE IF predecessor # Unwrap(self.owner_by_id[token_id])
    THEN Panic(ERR_NOT_OWNER, self)
    ELSE
      LET approved_account_ids ==
              IF self.approvals_by_id[token_id] = None
              THEN EmptyMap ELSE Unwrap(self.approvals_by_id[token_id])
          approval_id ==
              IF self.next_approval_id_by_id[token_id] = None
              THEN 0 ELSE Unwrap(self.next_approval_id_by_id[token_id])
          inserted ==
              [a \in DOMAIN approved_account_ids \cup {account_id} |->
                  IF a = account_id THEN approval_id ELSE approved_account_ids[a]]
          s1 == [self EXCEPT
                   !.approvals_by_id[token_id] = Some(inserted),
                   !.next_approval_id_by_id[token_id] = Some(approval_id + 1)]
          storage_used ==
              IF account_id \notin DOMAIN approved_account_ids
              THEN bytes_for_approved_account_id(account_id) ELSE 0
          r == refund_deposit_to_account(storage_used, predecessor, deposit)
      IN  IF ~r.ok
          THEN Panic(ERR_STORAGE, s1)
          ELSE Outcome("ok", s1, r.refunds, None)

\* NonFungibleTokenApproval::nft_approve (msg = None)
nft_approve(self, predecessor, deposit, token_id, account_id) ==
    IF ~(deposit >= 1)
    THEN Panic(ERR_LEAST_YOCTO, self)
    ELSE IF self.owner_by_id[token_id] = None
    THEN Panic(ERR_NOT_FOUND, self)
    ELSE IF predecessor # Unwrap(self.owner_by_id[token_id])
    THEN Panic(ERR_NOT_OWNER, self)
    ELSE
      LET approved_account_ids ==
              IF self.approvals_by_id[token_id] = None
              THEN EmptyMap ELSE Unwrap(self.approvals_by_id[token_id])
          approval_id ==
              IF self.next_approval_id_by_id[token_id] = None
              THEN 1 ELSE Unwrap(self.next_approval_id_by_id[token_id])
          old_approval_id ==
              IF account_id \in DOMAIN approved_account_ids
              THEN Some(approved_account_ids[account_id]) ELSE None
          inserted ==
              [a \in DOMAIN approved_account_ids \cup {account_id} |->
                  IF a = account_id THEN approval_id ELSE approved_account_ids[a]]
          s1 == [self EXCEPT
                   !.approvals_by_id[token_id] = Some(inserted),
                   !.next_approval_id_by_id[token_id] = Some(approval_id + 1)]
          storage_used ==
              IF old_approval_id = None
              THEN bytes_for_approved_account_id(account_id) ELSE 0
          r == refund_deposit_to_account(storage_used, predecessor, deposit)
      IN  IF ~r.ok
          THEN Panic(ERR_STORAGE, s1)
          ELSE Outcome("ok", s1, r.refunds, None)

\* nft_revoke that also lets an approved account revoke
nft_revoke_by_approved(self, predecessor, deposit, token_id, account_id) ==
    IF deposit # 1
    THEN Panic(ERR_ONE_YOCTO, self)
    ELSE IF self.owner_by_id[token_id] = None
    THEN Panic(ERR_NOT_FOUND, self)
    ELSE IF self.approvals_by_id[token_id] = None
    THEN IF predecessor # Unwrap(self.owner_by_id[token_id])
         THEN Panic(ERR_NOT_OWNER, self)
         ELSE Outcome("ok", self, <<>>, None)
    ELSE
      LET approved_account_ids == Unwrap(self.approvals_by_id[token_id])
          removed == [a \in DOMAIN approved_account_ids \ {account_id} |->
                         approved_account_ids[a]]
      IN  IF /\ predecessor # Unwrap(self.owner_by_id[token_id])
             /\ predecessor \notin DOMAIN approved_account_ids
          THEN Panic(ERR_NOT_OWNER, self)
          ELSE IF account_id \notin DOMAIN approved_account_ids
          THEN Outcome("ok", self, <<>>, None)
          ELSE Outcome("ok",
                       [self EXCEPT !.approvals_by_id[token_id] =
                           IF DOMAIN removed = {} THEN None ELSE Some(removed)],
                       refund_approved_account_ids(predecessor, {account_id}),
                       None)

\* a + b on u64: the sum when it fits; beyond u64::MAX the build decides: a
\* panic with overflow-checks on, the sum modulo 2^64 with them off
u64_add(a, b, checks) ==
    IF a + b <= U64_MAX
    THEN Some(a + b)
    ELSE IF checks
    THEN None
    ELSE Some((a + b) % (U64_MAX + 1))

\* NonFungibleTokenApproval::nft_approve with the width of its counter: the
\* checks of nft_approve come first, then approval_id + 1 is computed on u64
\* for next_approval_id_by_id, then the deposit is settled
nft_approve_u64(self, predecessor, deposit, token_id, account_id, checks) ==
    LET out  == nft_approve(self, predecessor, deposit, token_id, account_id)
        approval_id ==
            IF self.next_approval_id_by_id[token_id] = None
            THEN 1 ELSE Unwrap(self.next_approval_id_by_id[token_id])
        next == u64_add(approval_id, 1, checks)
    IN  IF out.result \in {ERR_LEAST_YOCTO, ERR_NOT_FOUND, ERR_NOT_OWNER}
        THEN out
        ELSE IF next = None
        THEN Panic(ERR_OVERFLOW, self)
        ELSE [out EXCEPT !.tokens.next_approval_id_by_id[token_id] = next]

\* nft_revoke that drops the whole approval map of the token
nft_revoke_whole_map(self, predecessor, deposit, token_id, account_id) ==
    IF deposit # 1
    THEN Panic(ERR_ONE_YOCTO, self)
    ELSE IF self.owner_by_id[token_id] = None
    THEN Panic(ERR_NOT_FOUND, self)
    ELSE IF predecessor # Unwrap(self.owner_by_id[token_id])
    THEN Panic(ERR_NOT_OWNER, self)
    ELSE IF self.approvals_by_id[token_id] = None
    THEN Outcome("ok", self, <<>>, None)
    ELSE IF account_id \notin DOMAIN Unwrap(self.approvals_by_id[token_id])
    THEN Outcome("ok", self, <<>>, None)
    ELSE Outcome("ok",
                 [self EXCEPT !.approvals_by_id[token_id] = None],
                 refund_approved_account_ids(predecessor, {account_id}),
                 None)

\* nft_revoke that pays the refund whether or not an approval was removed
nft_revoke_refund_always(self, predecessor, deposit, token_id, account_id) ==
    IF deposit # 1
    THEN Panic(ERR_ONE_YOCTO, self)
    ELSE IF self.owner_by_id[token_id] = None
    THEN Panic(ERR_NOT_FOUND, self)
    ELSE IF predecessor # Unwrap(self.owner_by_id[token_id])
    THEN Panic(ERR_NOT_OWNER, self)
    ELSE
      LET approved_account_ids ==
              IF self.approvals_by_id[token_id] = None
              THEN EmptyMap ELSE Unwrap(self.approvals_by_id[token_id])
          removed == [a \in DOMAIN approved_account_ids \ {account_id} |->
                         approved_account_ids[a]]
      IN  Outcome("ok",
                  [self EXCEPT !.approvals_by_id[token_id] =
                      IF DOMAIN removed = {} THEN None ELSE Some(removed)],
                  refund_approved_account_ids(predecessor, {account_id}),
                  None)

\* NonFungibleTokenApproval::nft_revoke
nft_revoke(self, predecessor, deposit, token_id, account_id) ==
    IF deposit # 1
    THEN Panic(ERR_ONE_YOCTO, self)
    ELSE IF self.owner_by_id[token_id] = None
    THEN Panic(ERR_NOT_FOUND, self)
    ELSE IF predecessor # Unwrap(self.owner_by_id[token_id])
    THEN Panic(ERR_NOT_OWNER, self)
    ELSE IF self.approvals_by_id[token_id] = None
    THEN Outcome("ok", self, <<>>, None)
    ELSE
      LET approved_account_ids == Unwrap(self.approvals_by_id[token_id])
          removed == [a \in DOMAIN approved_account_ids \ {account_id} |->
                         approved_account_ids[a]]
      IN  IF account_id \notin DOMAIN approved_account_ids
          THEN Outcome("ok", self, <<>>, None)
          ELSE Outcome("ok",
                       [self EXCEPT !.approvals_by_id[token_id] =
                           IF DOMAIN removed = {} THEN None ELSE Some(removed)],
                       refund_approved_account_ids(predecessor, {account_id}),
                       None)

\* nft_revoke_all that refuses a token without approvals
nft_revoke_all_refuse_empty(self, predecessor, deposit, token_id) ==
    IF deposit # 1
    THEN Panic(ERR_ONE_YOCTO, self)
    ELSE IF self.owner_by_id[token_id] = None
    THEN Panic(ERR_NOT_FOUND, self)
    ELSE IF predecessor # Unwrap(self.owner_by_id[token_id])
    THEN Panic(ERR_NOT_OWNER, self)
    ELSE IF self.approvals_by_id[token_id] = None
    THEN Panic(ERR_NOT_APPROVED, self)
    ELSE Outcome("ok",
                 [self EXCEPT !.approvals_by_id[token_id] = None],
                 refund_approved_account_ids(
                     predecessor, DOMAIN Unwrap(self.approvals_by_id[token_id])),
                 None)

\* NonFungibleTokenApproval::nft_revoke_all
nft_revoke_all(self, predecessor, deposit, token_id) ==
    IF deposit # 1
    THEN Panic(ERR_ONE_YOCTO, self)
    ELSE IF self.owner_by_id[token_id] = None
    THEN Panic(ERR_NOT_FOUND, self)
    ELSE IF predecessor # Unwrap(self.owner_by_id[token_id])
    THEN Panic(ERR_NOT_OWNER, self)
    ELSE IF self.approvals_by_id[token_id] = None
    THEN Outcome("ok", self, <<>>, None)
    ELSE Outcome("ok",
                 [self EXCEPT !.approvals_by_id[token_id] = None],
                 refund_approved_account_ids(
                     predecessor, DOMAIN Unwrap(self.approvals_by_id[token_id])),
                 None)

\* nft_is_approved that never compares the supplied approval id
nft_is_approved_any_id(self, token_id, approved_account_id, approval_id) ==
    IF self.approvals_by_id[token_id] = None
    THEN FALSE
    ELSE approved_account_id \in DOMAIN Unwrap(self.approvals_by_id[token_id])

\* NonFungibleTokenApproval::nft_is_approved, after expect_token_found
nft_is_approved(self, token_id, approved_account_id, approval_id) ==
    IF self.approvals_by_id[token_id] = None
    THEN FALSE
    ELSE LET approved_account_ids == Unwrap(self.approvals_by_id[token_id])
         IN  IF approved_account_id \notin DOMAIN approved_account_ids
             THEN FALSE
             ELSE IF approval_id # None
             THEN Unwrap(approval_id) = approved_account_ids[approved_account_id]
             ELSE TRUE

\* NonFungibleTokenApproval::nft_is_approved as a view call: it starts with
\* expect_token_found and panics on a token id that was never minted
nft_is_approved_view(self, token_id, approved_account_id, approval_id) ==
    IF self.owner_by_id[token_id] = None
    THEN Panic(ERR_NOT_FOUND, self)
    ELSE Outcome("ok", self, <<>>,
                 Some(nft_is_approved(self, token_id, approved_account_id,
                                      approval_id)))

-----------------------------------------------------------------------------
(* impl_non_fungible_token_enumeration *)

\* NonFungibleTokenEnumeration::nft_tokens, as a set: it walks owner_by_id
nft_tokens(self) == {t \in TokenIds : self.owner_by_id[t] # None}

\* NonFungibleTokenEnumeration::nft_total_supply
nft_total_supply(self) == Cardinality(nft_tokens(self))

\* NonFungibleTokenEnumeration::nft_tokens_for_owner, as a set of token ids
nft_tokens_for_owner(self, account_id) == self.tokens_per_owner[account_id]

-----------------------------------------------------------------------------
(* The contract as a state machine: one action per exported method.  `last` *)
(* records the most recent call, its inputs and what the caller observed.   *)

\* the deposits a caller attaches to a call that charges for storage: one
\* yoctoNEAR short of the cost, the cost, one yoctoNEAR over it, and the
\* largest surplus over it
StorageDeposits(required) ==
    {d \in {required - 1, required, required + 1, required + MaxExcess} : d >= 0}

\* the deposits a caller attaches to nft_approve: nothing, and the amounts
\* around the cost of the approval
Deposits(required) == {0} \cup StorageDeposits(required)

\* the deposits tried on the calls that assert one yoctoNEAR
OneYocto == {0, 1}

\* the token ids a minter asks for: the ids already taken and the first
\* free one
MintIds(self) ==
    {TokenOrder[i] : i \in {k \in 1..Len(TokenOrder) :
                              \A j \in 1..(k - 1) :
                                  self.owner_by_id[TokenOrder[j]] # None}}

\* what internal_mint would charge for this mint
MintCost(self, token_id, receiver_id, metadata) ==
    StorageByteCost *
      ( env_storage_usage([self EXCEPT
            !.owner_by_id[token_id] = Some(receiver_id),
            !.token_metadata_by_id[token_id] = Some(metadata),
            !.tokens_per_owner[receiver_id] = @ \cup {token_id}])
        - env_storage_usage(self) )

NextApprovalId(self, token_id) ==
    IF self.next_approval_id_by_id[token_id] = None
    THEN 1 ELSE Unwrap(self.next_approval_id_by_id[token_id])

\* the approval ids a caller supplies, or none: the ids the token has issued
\* and the one it has not issued yet
SuppliedApprovalIds(self, token_id) ==
    {None} \cup {Some(i) : i \in 1..NextApprovalId(self, token_id)}

\* the contract between two calls: nothing to report
Idle ==
    [ op |-> "idle", predecessor |-> None, deposit |-> 0, token_id |-> None,
      account_id |-> None, approval_id |-> None, metadata |-> None,
      before |-> None, result |-> "ok", refunds |-> <<>>, ret |-> None ]

\* the calls that are views: they read the state and commit nothing
Views == {"nft_is_approved"}

\* the deposit and the prepaid gas an nft_transfer_call comes with: the gas
\* the method asks for, or too little of it
TransferCallContexts ==
    {<<deposit, TRUE>> : deposit \in OneYocto} \cup {<<1, FALSE>>}

\* the host runs a method and commits or discards what it did
Dispatch(op, predecessor, deposit, token_id, account_id, approval_id, metadata, out) ==
    LET c == Commit(tokens, out) IN
    /\ tokens' = c.tokens
    /\ calls' = IF out.result = "ok" /\ op \notin Views THEN calls + 1 ELSE calls
    /\ minted' = IF op \in {"nft_mint", "nft_mint_default"} /\ out.result = "ok"
                 THEN minted \cup {Unwrap(token_id)} ELSE minted
    /\ issued' = IF op = "nft_approve" /\ out.result = "ok"
                 THEN [issued EXCEPT ![Unwrap(token_id)] =
                          Append(@, Unwrap(c.tokens.approvals_by_id
                                     [Unwrap(token_id)])[Unwrap(account_id)])]
                 ELSE issued
    /\ owners' = IF owners = None
                 THEN None
                 ELSE [t \in TokenIds |->
                         IF c.tokens.owner_by_id[t] # tokens.owner_by_id[t]
                         THEN Append(owners[t], Unwrap(c.tokens.owner_by_id[t]))
                         ELSE owners[t]]
    /\ last' = [ op          |-> op,
                 predecessor |-> predecessor,
                 deposit     |-> deposit,
                 token_id    |-> token_id,
                 account_id  |-> account_id,
                 approval_id |-> approval_id,
                 metadata    |-> metadata,
                 before      |-> tokens,
                 result      |-> out.result,
                 refunds     |-> c.refunds,
                 ret         |-> IF out.result = "ok" THEN out.ret ELSE None ]

\* a call from outside: the promise of a successful nft_transfer_call is kept
\* until its callback runs
Call(op, predecessor, deposit, token_id, account_id, approval_id, metadata, out) ==
    /\ Dispatch(op, predecessor, deposit, token_id, account_id, approval_id,
                metadata, out)
    /\ pending' = IF op = "nft_transfer_call" /\ out.result = "ok"
                  THEN Append(pending, Unwrap(out.ret)) ELSE pending
    /\ UNCHANGED overflow_checks

\* Contract::new_default_meta(accounts(0)), as test_mint deploys it
Init ==
    /\ tokens = new("alice")
    /\ last = Idle
    /\ calls = 0
    /\ minted = {}
    /\ issued = [t \in TokenIds |-> <<>>]
    /\ owners = None
    /\ pending = <<>>
    /\ overflow_checks = None

\* a call is taken when the previous one has returned
Ready == last = Idle /\ calls < MaxCalls

\* The call returns: the host hands the outcome and the scheduled transfers
\* over, and the contract waits for the next call.
Return ==
    /\ last # Idle
    /\ last' = Idle
    /\ UNCHANGED <<tokens, calls, minted, issued, owners, pending, overflow_checks>>

\* Contract::nft_mint
NftMint ==
    /\ Ready
    /\ \E predecessor \in Accounts, token_id \in MintIds(tokens),
       receiver_id \in Accounts, metadata \in SuppliedMetadata :
      \E deposit \in StorageDeposits(MintCost(tokens, token_id, receiver_id, metadata)) :
        Call("nft_mint", predecessor, deposit, Some(token_id), Some(receiver_id),
             None, Some(metadata),
             internal_mint(tokens, predecessor, deposit, token_id, receiver_id,
                           metadata))

\* Contract::nft_mint_default
NftMintDefault ==
    /\ Ready
    /\ \E predecessor \in Accounts, token_id \in MintIds(tokens),
       receiver_id \in Accounts :
      \E deposit \in StorageDeposits(MintCost(tokens, token_id, receiver_id, token_metadata)) :
        Call("nft_mint_default", predecessor, deposit, Some(token_id),
             Some(receiver_id), None, Some(token_metadata),
             internal_mint(tokens, predecessor, deposit, token_id, receiver_id,
                           token_metadata))

\* nft_transfer(receiver_id, token_id, approval_id, memo)
NftTransfer ==
    /\ Ready
    /\ \E predecessor \in Accounts, token_id \in TokenIds, receiver_id \in Accounts,
          deposit \in OneYocto :
       \E approval_id \in SuppliedApprovalIds(tokens, token_id) :
        Call("nft_transfer", predecessor, deposit, Some(token_id),
             Some(receiver_id), approval_id, None,
             nft_transfer(tokens, predecessor, deposit, receiver_id, token_id,
                          approval_id))

\* nft_transfer_call(receiver_id, token_id, approval_id, memo, msg)
NftTransferCall ==
    /\ Ready
    /\ Len(pending) < MaxPending
    /\ \E predecessor \in Accounts, token_id \in TokenIds, receiver_id \in Accounts,
          context \in TransferCallContexts :
       \E approval_id \in SuppliedApprovalIds(tokens, token_id) :
        Call("nft_transfer_call", predecessor, context[1], Some(token_id),
             Some(receiver_id), approval_id, None,
             nft_transfer_call(tokens, predecessor, context[1], context[2],
                               receiver_id, token_id, approval_id))

\* the callback of a pending nft_transfer_call, in any order, with whatever
\* answer the receiver gave
NftResolveTransfer ==
    /\ Ready
    /\ \E i \in 1..Len(pending), must_revert \in BOOLEAN :
        LET p == pending[i] IN
        /\ Dispatch("nft_resolve_transfer", current_account_id, 0,
                    Some(p.token_id), Some(p.receiver_id), None, None,
                    nft_resolve_transfer(tokens, must_revert, p.previous_owner_id,
                                         p.receiver_id, p.token_id,
                                         p.approved_account_ids))
        /\ pending' = SubSeq(pending, 1, i - 1)
                          \o SubSeq(pending, i + 1, Len(pending))
        /\ UNCHANGED overflow_checks

\* nft_approve(token_id, account_id, msg = None)
NftApprove ==
    /\ Ready
    /\ \E predecessor \in Accounts, token_id \in TokenIds, account_id \in Accounts :
      /\ NextApprovalId(tokens, token_id) <= MaxApprovalId
      /\ \E deposit \in Deposits(StorageByteCost
                                   * bytes_for_approved_account_id(account_id)) :
           Call("nft_approve", predecessor, deposit, Some(token_id),
                Some(account_id), None, None,
                nft_approve(tokens, predecessor, deposit, token_id, account_id))

\* nft_revoke(token_id, account_id)
NftRevoke ==
    /\ Ready
    /\ \E predecessor \in Accounts, token_id \in TokenIds, account_id \in Accounts,
       deposit \in OneYocto :
        Call("nft_revoke", predecessor, deposit, Some(token_id), Some(account_id),
             None, None,
             nft_revoke(tokens, predecessor, deposit, token_id, account_id))

\* nft_revoke_all(token_id)
NftRevokeAll ==
    /\ Ready
    /\ \E predecessor \in Accounts, token_id \in TokenIds, deposit \in OneYocto :
        Call("nft_revoke_all", predecessor, deposit, Some(token_id), None,
             None, None,
             nft_revoke_all(tokens, predecessor, deposit, token_id))

\* nft_is_approved, called as a view: no predecessor and no deposit matter
NftIsApproved ==
    /\ Ready
    /\ \E token_id \in TokenIds, account_id \in Accounts :
       \E approval_id \in SuppliedApprovalIds(tokens, token_id) :
        Call("nft_is_approved", "alice", 0, Some(token_id), Some(account_id),
             approval_id, None,
             nft_is_approved_view(tokens, token_id, account_id, approval_id))

Next ==
    \/ NftMint
    \/ NftMintDefault
    \/ NftTransfer
    \/ NftTransferCall
    \/ NftResolveTransfer
    \/ NftApprove
    \/ NftRevoke
    \/ NftRevokeAll
    \/ NftIsApproved
    \/ Return

Spec == Init /\ [][Next]_vars

\* The overflow-checks setting of the build that is deployed.  The build
\* fixes it once; the model learns it at the first addition that overflows
\* and every later one finds the same setting.
Build ==
    IF overflow_checks = None THEN BOOLEAN ELSE {Unwrap(overflow_checks)}

\* nft_approve(token_id, account_id, None) followed up to the end of the
\* counter's width, in a build with or without overflow-checks
NftApproveU64 ==
    /\ Ready
    /\ \E predecessor \in Accounts, token_id \in TokenIds, account_id \in Accounts,
          checks \in Build :
        \E deposit \in Deposits(StorageByteCost
                                   * bytes_for_approved_account_id(account_id)) :
           LET out == nft_approve_u64(tokens, predecessor, deposit, token_id,
                                      account_id, checks)
           IN  /\ Dispatch("nft_approve", predecessor, deposit, Some(token_id),
                           Some(account_id), None, None, out)
               /\ overflow_checks' =
                     IF /\ NextApprovalId(tokens, token_id) = U64_MAX
                        /\ out.result \notin {ERR_LEAST_YOCTO, ERR_NOT_FOUND,
                                              ERR_NOT_OWNER}
                     THEN Some(checks) ELSE overflow_checks
               /\ UNCHANGED pending

NextOverflow ==
    \/ NftMint
    \/ NftMintDefault
    \/ NftTransfer
    \/ NftTransferCall
    \/ NftResolveTransfer
    \/ NftApproveU64
    \/ NftRevoke
    \/ NftRevokeAll
    \/ NftIsApproved
    \/ Return

\* the contract with its approval counters followed to their last value
SpecOverflow == Init /\ [][NextOverflow]_vars

\* The same contract after construction, with the successive owners of each
\* token recorded from then on: every owner a caller can have observed.
InitOwners ==
    /\ tokens = new("alice")
    /\ last = Idle
    /\ calls = 0
    /\ minted = {}
    /\ issued = [t \in TokenIds |-> <<>>]
    /\ owners = [t \in TokenIds |-> <<>>]
    /\ pending = <<>>
    /\ overflow_checks = None

SpecOwners == InitOwners /\ [][Next]_vars

-----------------------------------------------------------------------------
(* Properties.  They are stated on the call being returned: `last` holds    *)
(* its inputs, last.before the contract before it, `tokens` the contract    *)
(* after it.                                                                *)

IsMint == last.op \in {"nft_mint", "nft_mint_default"}
\* the returned call is a transfer asked for by a caller
IsTransfer == last.op \in {"nft_transfer", "nft_transfer_call"}
Ok == last.result = "ok"
Caller == last.predecessor
TokenArg == Unwrap(last.token_id)
AccountArg == Unwrap(last.account_id)
ApprovalIdArgs == {None} \cup {Some(i) : i \in 1..MaxApprovalId}

\* the error kind a panic message stands for
ErrorKind(result) ==
    CASE result = ERR_UNIQUE       -> "TokenAlreadyExists"
      [] result = ERR_NOT_FOUND    -> "TokenNotFound"
      [] result = ERR_UNAUTHORIZED -> "Unauthorized"
      [] result = ERR_NOT_APPROVED -> "Unauthorized"
      [] result = ERR_NOT_OWNER    -> "Unauthorized"
      [] result = ERR_APPROVAL_ID  -> "StaleApproval"
      [] result = ERR_SAME_OWNER   -> "SelfTransfer"
      [] result = ERR_STORAGE      -> "InsufficientStorageDeposit"
      [] result = ERR_ONE_YOCTO    -> "DepositAssertion"
      [] result = ERR_LEAST_YOCTO  -> "DepositAssertion"
      [] OTHER                     -> "None"

\* C1 (as claimed): a mint (nft_mint or nft_mint_default) called by an account
\* other than the owner_id configured at construction fails and creates no
\* token: only the configured minting authority ever creates one.  (The claim
\* also names the error, Unauthorized; what is stated here is the part any
\* error would satisfy.)
C1_MintAuthorization ==
    (IsMint /\ Caller # last.before.owner_id)
        => /\ ~Ok
           /\ tokens.owner_by_id[TokenArg] = last.before.owner_by_id[TokenArg]

\* C2: a mint of a token id already in the ownership record fails with
\* TokenAlreadyExists and leaves the token's owner, approvals and metadata (the
\* whole contract) as they were; no token id is held by two owners.
C2_Uniqueness ==
    /\ (IsMint /\ last.before.owner_by_id[TokenArg] # None)
          => /\ ErrorKind(last.result) = "TokenAlreadyExists"
             /\ nft_token(tokens, TokenArg) = nft_token(last.before, TokenArg)
             /\ tokens = last.before
    /\ \A t \in TokenIds :
          Cardinality({a \in Accounts : t \in nft_tokens_for_owner(tokens, a)}) <= 1

C2_Witness ==
    /\ IsMint
    /\ last.before.owner_by_id[TokenArg] # None
    /\ last.before.approvals_by_id[TokenArg] # None
    /\ last.deposit > 0
    /\ last.result = ERR_UNIQUE

\* C3: every existing token is in exactly one owner's enumeration set, that
\* owner is the token's owner in the ownership record, the global token set is
\* the set of ids of the ownership record, and no enumeration set holds an id
\* that the ownership record lacks.
C3_OwnershipConsistency ==
    /\ \A t \in nft_tokens(tokens) :
          {a \in Accounts : t \in nft_tokens_for_owner(tokens, a)}
              = {Unwrap(tokens.owner_by_id[t])}
    /\ nft_tokens(tokens) = {t \in TokenIds : tokens.owner_by_id[t] # None}
    /\ nft_total_supply(tokens)
          = Cardinality(UNION {nft_tokens_for_owner(tokens, a) : a \in Accounts})
    /\ \A a \in Accounts : \A t \in nft_tokens_for_owner(tokens, a) :
          tokens.owner_by_id[t] # None

C3_Witness ==
    /\ last.op = "nft_transfer" /\ Ok
    /\ nft_total_supply(tokens) = 2
    /\ \E a \in Accounts : nft_tokens_for_owner(last.before, a) = TokenIds

\* nft_resolve_transfer hands a token back to the owner it came from
C3_WitnessReturned ==
    /\ last.op = "nft_resolve_transfer" /\ last.ret = Some(FALSE)
    /\ tokens.owner_by_id[TokenArg] # last.before.owner_by_id[TokenArg]
    /\ TokenArg \in nft_tokens_for_owner(last.before, AccountArg)

\* the returned call moved the token to another owner: a transfer a caller
\* asked for, or the return of the token by nft_resolve_transfer
TokenMoved ==
    /\ last.op \in {"nft_transfer", "nft_transfer_call", "nft_resolve_transfer"}
    /\ Ok
    /\ tokens.owner_by_id[TokenArg] # last.before.owner_by_id[TokenArg]

\* C4 (as claimed): right after every successful transfer of a token the
\* token's approval map is empty: is_approved is false for every account and
\* every approval id, supplied or not, and no account other than the new
\* owner, so none that only the previous owner approved, can transfer the
\* token.
C4_ApprovalFencing ==
    TokenMoved
        => LET new_owner == Unwrap(tokens.owner_by_id[TokenArg])
           IN  /\ tokens.approvals_by_id[TokenArg] = None
               /\ Unwrap(nft_token(tokens, TokenArg)).approved_account_ids
                      = Some(EmptyMap)
               /\ \A a \in Accounts, id \in ApprovalIdArgs :
                     ~nft_is_approved(tokens, TokenArg, a, id)
               /\ \A a \in Accounts \ {new_owner}, r \in Accounts,
                     id \in ApprovalIdArgs :
                     nft_transfer(tokens, a, 1, r, TokenArg, id).result # "ok"

\* the caller of the returned transfer was entitled to move the token
TransferAuthorized ==
    LET owner     == Unwrap(last.before.owner_by_id[TokenArg])
        approvals == last.before.approvals_by_id[TokenArg]
    IN  \/ Caller = owner
        \/ /\ approvals # None
           /\ Caller \in DOMAIN Unwrap(approvals)
           /\ \/ last.approval_id = None
              \/ Unwrap(approvals)[Caller] = Unwrap(last.approval_id)

\* C5: a transfer of an existing token succeeds only if the caller is the
\* current owner, or is in the approval map with, when an id is supplied, that
\* id stored for it; any other caller's transfer fails, and a failed transfer
\* leaves the owner as it was.
C5_TransferAuthorization ==
    (IsTransfer /\ last.before.owner_by_id[TokenArg] # None)
        => /\ Ok => TransferAuthorized
           /\ ~TransferAuthorized => ~Ok
           /\ ~Ok => tokens.owner_by_id = last.before.owner_by_id

C5_Witness ==
    /\ last.op = "nft_transfer" /\ Ok
    /\ Caller # Unwrap(last.before.owner_by_id[TokenArg])
    /\ last.approval_id # None

\* a transfer refused although the caller is approved: the id it supplied is stale
C5_WitnessStale ==
    /\ last.op = "nft_transfer" /\ last.result = ERR_APPROVAL_ID

\* the yoctoNEAR the returned call schedules for its caller
RECURSIVE RefundTo(_, _)
RefundTo(account_id, refunds) ==
    IF refunds = <<>> THEN 0
    ELSE (IF Head(refunds).receiver = account_id THEN Head(refunds).amount ELSE 0)
         + RefundTo(account_id, Tail(refunds))

\* C6 (as claimed): for a mint that grows storage by D bytes at byte cost c,
\* a deposit of exactly D*c succeeds and refunds nothing, any smaller deposit
\* fails with InsufficientStorageDeposit, and a deposit of D*c + k succeeds and
\* refunds exactly k to the caller.
C6_AccountingExactness ==
    (IsMint /\ last.before.owner_by_id[TokenArg] = None)
        => LET cost == MintCost(last.before, TokenArg, AccountArg,
                                Unwrap(last.metadata))
               k    == last.deposit - cost
           IN  /\ k = 0 => Ok /\ last.refunds = <<>>
               /\ k < 0 => ErrorKind(last.result) = "InsufficientStorageDeposit"
               /\ k > 0 => /\ Ok
                           /\ last.refunds = <<[receiver |-> Caller, amount |-> k]>>

\* the approval-management call being returned released or kept storage
ApprovalCall == last.op \in {"nft_approve", "nft_revoke", "nft_revoke_all"}

\* C7 (as claimed, for the calls whose accounting the approval extension does
\* itself): a call that leaves the storage footprint smaller refunds its caller
\* the entire attached payment plus (pre_bytes - post_bytes) * byte_cost, and a
\* call that leaves it unchanged refunds the entire attached payment.
C7_RefundOnNonIncreasingStorage ==
    (ApprovalCall /\ Ok)
        => LET pre_bytes  == env_storage_usage(last.before)
               post_bytes == env_storage_usage(tokens)
           IN  /\ post_bytes < pre_bytes
                    => RefundTo(Caller, last.refunds)
                         = last.deposit + (pre_bytes - post_bytes) * StorageByteCost
               /\ post_bytes = pre_bytes
                    => RefundTo(Caller, last.refunds) = last.deposit

\* the returned call met one of the conditions the methods refuse: a mint of
\* an id already taken or with a deposit below the cost of its inserts; a call
\* on a token that does not exist; a transfer by a caller that is neither the
\* owner nor approved with the id it supplies, or to the owner; approval
\* management by another account than the owner; an approve of a new account
\* with a deposit below the cost of its entry
Refused ==
    \/ /\ IsMint
       /\ \/ last.before.owner_by_id[TokenArg] # None
          \/ last.deposit < MintCost(last.before, TokenArg, AccountArg,
                                     Unwrap(last.metadata))
    \/ /\ (IsTransfer \/ ApprovalCall)
       /\ last.before.owner_by_id[TokenArg] = None
    \/ /\ IsTransfer
       /\ last.before.owner_by_id[TokenArg] # None
       /\ \/ ~TransferAuthorized
          \/ AccountArg = Unwrap(last.before.owner_by_id[TokenArg])
    \/ /\ ApprovalCall
       /\ last.before.owner_by_id[TokenArg] # None
       /\ Caller # Unwrap(last.before.owner_by_id[TokenArg])
    \/ /\ last.op = "nft_approve"
       /\ last.before.owner_by_id[TokenArg] # None
       /\ \/ last.before.approvals_by_id[TokenArg] = None
          \/ AccountArg \notin DOMAIN Unwrap(last.before.approvals_by_id[TokenArg])
       /\ last.deposit
            < StorageByteCost * bytes_for_approved_account_id(AccountArg)

C8_WitnessTransfer ==
    /\ last.op = "nft_transfer"
    /\ last.result \in {ERR_NOT_APPROVED, ERR_APPROVAL_ID, ERR_SAME_OWNER}
    /\ last.before.approvals_by_id[TokenArg] # None

\* the returned call carries the deposit its method asserts
DepositAsserted ==
    IF last.op = "nft_approve" THEN last.deposit >= 1 ELSE last.deposit = 1

\* C9 (as claimed): approve, revoke and revoke_all called on a token by anyone
\* but its current owner fail with Unauthorized and leave the approval map
\* unchanged.
C9_OwnerOnlyApprovalManagement ==
    (ApprovalCall /\ last.before.owner_by_id[TokenArg] # None
                  /\ Caller # Unwrap(last.before.owner_by_id[TokenArg]))
        => /\ ErrorKind(last.result) = "Unauthorized"
           /\ tokens.approvals_by_id = last.before.approvals_by_id

\* C9 (amended): approve, revoke and revoke_all on a token succeed only when
\* the caller is its current owner; called by anyone else, an approved account
\* included, they fail and leave the approval map unchanged, with Unauthorized
\* when the call carries the deposit its method asserts (one yoctoNEAR, at
\* least one for approve) and with the deposit assertion's error otherwise.
C9_OwnerOnlyAmended ==
    (ApprovalCall /\ last.before.owner_by_id[TokenArg] # None)
        => /\ Ok => Caller = Unwrap(last.before.owner_by_id[TokenArg])
           /\ Caller # Unwrap(last.before.owner_by_id[TokenArg])
                => /\ ~Ok
                   /\ tokens.approvals_by_id = last.before.approvals_by_id
                   /\ tokens.next_approval_id_by_id
                        = last.before.next_approval_id_by_id
                   /\ IF DepositAsserted
                      THEN ErrorKind(last.result) = "Unauthorized"
                      ELSE ErrorKind(last.result) = "DepositAssertion"

\* an approved account, not the owner, is refused the revoke of an approval
C9_Witness ==
    /\ last.op = "nft_revoke"
    /\ last.before.approvals_by_id[TokenArg] # None
    /\ Caller \in DOMAIN Unwrap(last.before.approvals_by_id[TokenArg])
    /\ Caller # Unwrap(last.before.owner_by_id[TokenArg])
    /\ AccountArg \in DOMAIN Unwrap(last.before.approvals_by_id[TokenArg])
    /\ last.deposit = 1
    /\ last.result = ERR_NOT_OWNER

\* C10: a successful mint returns the token with the given id, the receiver
\* (not the caller) as owner, the given metadata and no approvals; nft_token
\* then reports that same token; and nft_token of an id never minted is none.
C10_MintResult ==
    /\ (IsMint /\ Ok)
          => /\ last.ret = Some(Token(TokenArg, AccountArg, last.metadata,
                                      Some(EmptyMap)))
             /\ nft_token(tokens, TokenArg) = last.ret
             /\ last.op = "nft_mint_default" => last.metadata = Some(token_metadata)
    /\ \A t \in TokenIds \ minted : nft_token(tokens, t) = None

C10_Witness ==
    /\ IsMint /\ Ok
    /\ Caller # AccountArg
    /\ Unwrap(nft_token(tokens, TokenArg)).owner_id = AccountArg
    /\ TokenIds \ minted # {}

-----------------------------------------------------------------------------
(* Approvals: grant, revoke, revoke_all *)

\* the approval id stored for an account on a token, if any
ApprovalOf(self, token_id, account_id) ==
    IF self.approvals_by_id[token_id] = None
    THEN None
    ELSE IF account_id \notin DOMAIN Unwrap(self.approvals_by_id[token_id])
    THEN None
    ELSE Some(Unwrap(self.approvals_by_id[token_id])[account_id])

\* the id the returned nft_approve issued: the token's counter before the call
IssuedId == NextApprovalId(last.before, TokenArg)

\* the returned call is one that ends the approval of the account on the token:
\* a revoke of that account, a revoke_all, a re-approval or a transfer (the
\* return of the token by nft_resolve_transfer is one)
EndsApproval(token_id, account_id) ==
    /\ Ok
    /\ last.token_id = Some(token_id)
    /\ \/ last.op \in {"nft_revoke_all", "nft_transfer", "nft_transfer_call"}
       \/ last.op = "nft_resolve_transfer" /\ last.ret = Some(FALSE)
       \/ /\ last.op \in {"nft_revoke", "nft_approve"}
          /\ last.account_id = Some(account_id)

\* C11: after the owner's successful approve of a grantee, nft_is_approved of
\* the token and the grantee is true with the id that approve issued and true
\* with no id, and it stays so across every call that is not a revoke of that
\* grantee, a revoke_all, a re-approval or a transfer of the token; the first
\* approval of a token has id 1.
C11_ApproveGrantsApproval ==
    /\ (last.op = "nft_approve" /\ Ok)
          => /\ Caller = Unwrap(last.before.owner_by_id[TokenArg])
             /\ nft_is_approved(tokens, TokenArg, AccountArg, Some(IssuedId))
             /\ nft_is_approved(tokens, TokenArg, AccountArg, None)
             /\ nft_is_approved_view(tokens, TokenArg, AccountArg,
                                     Some(IssuedId)).ret = Some(TRUE)
             /\ Len(issued[TokenArg]) = 1 => IssuedId = 1
    /\ last.op # "idle"
          => \A t \in {u \in TokenIds : last.before.approvals_by_id[u] # None} :
             \A a \in DOMAIN Unwrap(last.before.approvals_by_id[t]) :
                ~EndsApproval(t, a)
                    => /\ ApprovalOf(tokens, t, a) = ApprovalOf(last.before, t, a)
                       /\ nft_is_approved(tokens, t, a, ApprovalOf(last.before, t, a))
                       /\ nft_is_approved(tokens, t, a, None)

\* a second grantee is approved while the first approval, of id 1, stands
C11_Witness ==
    /\ last.op = "nft_approve" /\ Ok
    /\ issued[TokenArg] = <<1, 2>>
    /\ \E a \in Accounts \ {AccountArg} :
          /\ ApprovalOf(last.before, TokenArg, a) = Some(1)
          /\ nft_is_approved(tokens, TokenArg, a, Some(1))
    /\ nft_is_approved(tokens, TokenArg, AccountArg, Some(2))

\* nft_resolve_transfer hands a token back and with it the approval its owner
\* had granted before the nft_transfer_call
C11_WitnessRestored ==
    /\ last.op = "nft_resolve_transfer" /\ last.ret = Some(FALSE)
    /\ last.before.approvals_by_id[TokenArg] = None
    /\ \E a \in Accounts : nft_is_approved(tokens, TokenArg, a, Some(1))

\* C12: after a successful revoke of an approved account, nft_is_approved of
\* that account is false with any id and with none, and the entries of the
\* other accounts, the other tokens' approvals and every owner are unchanged.
C12_RevokeEffect ==
    (last.op = "nft_revoke" /\ Ok
        /\ ApprovalOf(last.before, TokenArg, AccountArg) # None)
        => /\ \A id \in ApprovalIdArgs :
                 ~nft_is_approved(tokens, TokenArg, AccountArg, id)
           /\ \A a \in Accounts \ {AccountArg} :
                 ApprovalOf(tokens, TokenArg, a) = ApprovalOf(last.before, TokenArg, a)
           /\ \A t \in TokenIds \ {TokenArg} :
                 tokens.approvals_by_id[t] = last.before.approvals_by_id[t]
           /\ tokens.owner_by_id = last.before.owner_by_id

\* one of two approved accounts is revoked
C12_Witness ==
    /\ last.op = "nft_revoke" /\ Ok
    /\ ApprovalOf(last.before, TokenArg, AccountArg) # None
    /\ \E a \in Accounts \ {AccountArg} : ApprovalOf(tokens, TokenArg, a) # None

\* C13 (as claimed): after the owner calls revoke_all on a token the token's
\* approval map is empty, so is_approved is false for every account and every
\* approval id; when the map is already empty the call succeeds as a no-op
\* and never fails.
C13_RevokeAllEffect ==
    (last.op = "nft_revoke_all"
        /\ last.before.owner_by_id[TokenArg] = Some(Caller))
          => /\ tokens.approvals_by_id[TokenArg] = None
             /\ \A a \in Accounts, id \in ApprovalIdArgs :
                    ~nft_is_approved(tokens, TokenArg, a, id)
             /\ last.before.approvals_by_id[TokenArg] = None
                    => Ok /\ tokens = last.before

\* C13 (amended): the owner's revoke_all of a token succeeds when it carries
\* exactly one yoctoNEAR, and then the token's approval map is empty and
\* is_approved is false for every account and every approval id; when the map
\* is already empty that call succeeds and changes nothing.  With any other
\* deposit the owner's call fails with the deposit assertion's error and
\* changes nothing, whether the map is empty or not: an empty map is never
\* the reason of a failure.
C13_RevokeAllAmended ==
    /\ (last.op = "nft_revoke_all" /\ Ok)
          => /\ tokens.approvals_by_id[TokenArg] = None
             /\ Unwrap(nft_token(tokens, TokenArg)).approved_account_ids
                    = Some(EmptyMap)
             /\ \A a \in Accounts, id \in ApprovalIdArgs :
                    ~nft_is_approved(tokens, TokenArg, a, id)
    /\ (last.op = "nft_revoke_all"
           /\ last.before.owner_by_id[TokenArg] = Some(Caller))
          => /\ Ok <=> last.deposit = 1
             /\ ~Ok => /\ last.result = ERR_ONE_YOCTO
                       /\ tokens = last.before
             /\ (Ok /\ last.before.approvals_by_id[TokenArg] = None)
                    => tokens = last.before

\* revoke_all of a token that has no approvals
C13_Witness ==
    /\ last.op = "nft_revoke_all" /\ Ok
    /\ last.before.approvals_by_id[TokenArg] = None
    /\ last.before.next_approval_id_by_id[TokenArg] # None

\* the owner's revoke_all of a token that has no approvals, refused for
\* carrying no yoctoNEAR
C13_WitnessNoDeposit ==
    /\ last.op = "nft_revoke_all"
    /\ last.before.owner_by_id[TokenArg] = Some(Caller)
    /\ last.before.approvals_by_id[TokenArg] = None
    /\ last.result = ERR_ONE_YOCTO

\* revoke_all of a token with two approvals
C13_WitnessTwo ==
    /\ last.op = "nft_revoke_all" /\ Ok
    /\ last.before.approvals_by_id[TokenArg] # None
    /\ Cardinality(DOMAIN Unwrap(last.before.approvals_by_id[TokenArg])) = 2

-----------------------------------------------------------------------------
(* Transfer effect, metadata, approval ids *)

\* C14: after a successful transfer of a token from its owner A to C, nft_token
\* reports owner C, the token has left A's enumeration set and is in C's, and
\* the total supply and the global token set are unchanged;
\* the same holds when nft_resolve_transfer hands a token back from the
\* receiver A to the owner C it came from.
C14_TransferEffect ==
    /\ (IsTransfer /\ Ok)
        => LET A == Unwrap(last.before.owner_by_id[TokenArg])
               C == AccountArg
           IN  /\ A # C
               /\ Unwrap(nft_token(tokens, TokenArg)).owner_id = C
               /\ TokenArg \notin nft_tokens_for_owner(tokens, A)
               /\ TokenArg \in nft_tokens_for_owner(tokens, C)
               /\ nft_total_supply(tokens) = nft_total_supply(last.before)
               /\ nft_tokens(tokens) = nft_tokens(last.before)
    /\ (last.op = "nft_resolve_transfer" /\ last.ret = Some(FALSE))
          => LET A == AccountArg
                 C == Unwrap(tokens.owner_by_id[TokenArg])
             IN  /\ A # C
                 /\ last.before.owner_by_id[TokenArg] = Some(A)
                 /\ Unwrap(nft_token(tokens, TokenArg)).owner_id = C
                 /\ TokenArg \notin nft_tokens_for_owner(tokens, A)
                 /\ TokenArg \in nft_tokens_for_owner(tokens, C)
                 /\ nft_total_supply(tokens) = nft_total_supply(last.before)
                 /\ nft_tokens(tokens) = nft_tokens(last.before)

\* an approved account moves one of the owner's two tokens to a third account
C14_Witness ==
    /\ last.op = "nft_transfer" /\ Ok
    /\ Caller # Unwrap(last.before.owner_by_id[TokenArg])
    /\ Caller # AccountArg
    /\ nft_tokens_for_owner(last.before, Unwrap(last.before.owner_by_id[TokenArg]))
          = TokenIds

\* an approved account moves the token by nft_transfer_call
C14_WitnessTransferCall ==
    /\ last.op = "nft_transfer_call" /\ Ok
    /\ Caller # Unwrap(last.before.owner_by_id[TokenArg])
    /\ Caller # AccountArg

\* C15: the metadata of a token is the one its mint stored and no later call
\* changes it: not a transfer, not an approve, revoke or revoke_all, not a
\* failed mint of the same id; approve, revoke and revoke_all also leave every
\* owner and every enumeration set as they were.
C15_MetadataWriteOnce ==
    /\ (IsMint /\ Ok)
          => tokens.token_metadata_by_id[TokenArg] = last.metadata
    /\ (last.op # "idle" /\ tokens # last.before)
          => \A t \in TokenIds :
                last.before.token_metadata_by_id[t] # None
                    => /\ tokens.token_metadata_by_id[t]
                             = last.before.token_metadata_by_id[t]
                       /\ Unwrap(nft_token(tokens, t)).metadata
                             = Unwrap(nft_token(last.before, t)).metadata
    /\ ApprovalCall
          => /\ tokens.owner_by_id = last.before.owner_by_id
             /\ tokens.tokens_per_owner = last.before.tokens_per_owner
             /\ nft_tokens(tokens) = nft_tokens(last.before)
             /\ \A a \in Accounts :
                   nft_tokens_for_owner(tokens, a)
                       = nft_tokens_for_owner(last.before, a)

\* a mint of an existing token id that brings another metadata
C15_Witness ==
    /\ IsMint
    /\ last.before.token_metadata_by_id[TokenArg] # None
    /\ last.before.token_metadata_by_id[TokenArg] # last.metadata
    /\ last.deposit > 0
    /\ ~Ok

\* a successful approve on a token that carries metadata
C15_WitnessApprove ==
    /\ last.op = "nft_approve" /\ Ok
    /\ tokens.token_metadata_by_id[TokenArg] = Some(token_metadata)

StrictlyIncreasing(seq) ==
    \A i, j \in 1..Len(seq) : i < j => seq[i] < seq[j]

\* C16: every approve of a token issues an id greater than every id issued for
\* that token before; the token's counter stays above every issued id and no
\* call, revoke and transfer included, lowers it; a re-approval of an approved
\* account replaces its id, and nft_is_approved with the old id is then false.
C16_ApprovalIdMonotonicity ==
    /\ \A t \in TokenIds :
          /\ StrictlyIncreasing(issued[t])
          /\ \A i \in 1..Len(issued[t]) : issued[t][i] < NextApprovalId(tokens, t)
    /\ (last.op # "idle" /\ tokens # last.before)
          => \A t \in TokenIds :
                NextApprovalId(tokens, t) >= NextApprovalId(last.before, t)
    /\ (last.op = "nft_approve" /\ Ok
           /\ ApprovalOf(last.before, TokenArg, AccountArg) # None)
          => LET old_id == ApprovalOf(last.before, TokenArg, AccountArg)
                 new_id == ApprovalOf(tokens, TokenArg, AccountArg)
             IN  /\ new_id # None
                 /\ Unwrap(new_id) > Unwrap(old_id)
                 /\ Unwrap(new_id) = issued[TokenArg][Len(issued[TokenArg])]
                 /\ ~nft_is_approved(tokens, TokenArg, AccountArg, old_id)
                 /\ nft_is_approved(tokens, TokenArg, AccountArg, new_id)

\* an approve by the new owner after a transfer: the id follows the old one
C16_Witness ==
    /\ last.op = "nft_approve" /\ Ok
    /\ issued[TokenArg] = <<1, 2>>
    /\ last.before.approvals_by_id[TokenArg] = None
    /\ Caller # "alice"

\* a re-approval of an approved account
C16_WitnessReapproval ==
    /\ last.op = "nft_approve" /\ Ok
    /\ ApprovalOf(last.before, TokenArg, AccountArg) = Some(1)
    /\ ApprovalOf(tokens, TokenArg, AccountArg) = Some(2)

-----------------------------------------------------------------------------
(* The approval query and the refusals of transfer and revoke *)

\* C17: nft_is_approved is a pure query: it returns true exactly when the
\* account is in the token's approval map and, if an id is supplied, the stored
\* id equals it; on an existing token a mismatched id yields false and never
\* an error; the call changes no part of the contract state and schedules
\* nothing.
C17_IsApprovedPureQuery ==
    last.op = "nft_is_approved"
        => LET stored == ApprovalOf(last.before, TokenArg, AccountArg)
           IN  /\ tokens = last.before
               /\ last.refunds = <<>>
               /\ (last.ret = Some(TRUE))
                     <=> /\ stored # None
                         /\ last.approval_id \in {None, stored}
               /\ last.before.owner_by_id[TokenArg] # None
                     => /\ Ok
                        /\ last.ret \in {Some(TRUE), Some(FALSE)}

\* the query of an approved account with an id that is not the stored one
C17_Witness ==
    /\ last.op = "nft_is_approved" /\ Ok
    /\ ApprovalOf(last.before, TokenArg, AccountArg) = Some(2)
    /\ last.approval_id = Some(1)
    /\ last.ret = Some(FALSE)

\* the query of an approved account with the stored id
C17_WitnessTrue ==
    /\ last.op = "nft_is_approved" /\ Ok
    /\ ApprovalOf(last.before, TokenArg, AccountArg) = last.approval_id
    /\ last.ret = Some(TRUE)

\* the owners the token had before the returned call, in order: each is an
\* owner some caller has observed
OwnersBefore ==
    IF tokens.owner_by_id[TokenArg] # last.before.owner_by_id[TokenArg]
    THEN SubSeq(owners[TokenArg], 1, Len(owners[TokenArg]) - 1)
    ELSE owners[TokenArg]

\* C18 (as claimed): a transfer prepared against an observation of the owner
\* that has since changed, so that the owner its caller expects is not the
\* token's current owner, fails and changes nothing, even when the caller is
\* otherwise authorised.  nft_transfer(receiver_id, token_id, approval_id,
\* memo) and nft_transfer_call take no expected owner: whatever owner the
\* caller observed, the call is the same call.  (The claim also names the
\* error, OwnerMismatch; what is stated here is the part any error would
\* satisfy.)
C18_OwnerMismatchGuard ==
    (IsTransfer /\ last.before.owner_by_id[TokenArg] # None)
        => \A i \in 1..Len(OwnersBefore) :
              LET expected_owner_id == OwnersBefore[i] IN
              expected_owner_id # Unwrap(last.before.owner_by_id[TokenArg])
                  => ~Ok /\ tokens = last.before

\* the caller of the returned transfer is the owner or is in the approval map
OwnerOrApproved ==
    \/ Caller = Unwrap(last.before.owner_by_id[TokenArg])
    \/ ApprovalOf(last.before, TokenArg, Caller) # None

\* C19 (as claimed, for the calls that carry the 1 yoctoNEAR nft_transfer
\* asserts): a transfer whose receiver is the token's current owner fails with
\* SelfTransfer, whether the caller is the owner or an approved account, and
\* the token's approvals are not cleared.
C19_SelfTransferRejected ==
    (last.op = "nft_transfer"
        /\ last.before.owner_by_id[TokenArg] = Some(AccountArg)
        /\ last.deposit = 1
        /\ OwnerOrApproved)
        => /\ ErrorKind(last.result) = "SelfTransfer"
           /\ tokens.approvals_by_id[TokenArg]
                 = last.before.approvals_by_id[TokenArg]

\* C19 (amended): every transfer whose receiver is the token's current owner
\* fails and leaves the approvals, and the whole contract, as they were; the
\* error is SelfTransfer exactly when the call carries 1 yoctoNEAR and the
\* caller is the owner or holds a matching approval (and, for an
\* nft_transfer_call, the gas it asks for), and the error of the earlier check
\* otherwise.
C19_SelfTransferAmended ==
    (IsTransfer
        /\ last.before.owner_by_id[TokenArg] = Some(AccountArg))
        => /\ ~Ok
           /\ tokens = last.before
           /\ tokens.approvals_by_id[TokenArg]
                 = last.before.approvals_by_id[TokenArg]
           /\ last.result # ERR_GAS
                 => (ErrorKind(last.result) = "SelfTransfer")
                       <=> (last.deposit = 1 /\ TransferAuthorized)
           /\ last.result = ERR_GAS
                 => last.op = "nft_transfer_call" /\ last.deposit = 1

\* an approved account, with its id, sends the token to the owner
C19_Witness ==
    /\ last.op = "nft_transfer"
    /\ last.before.owner_by_id[TokenArg] = Some(AccountArg)
    /\ Caller # AccountArg
    /\ last.approval_id # None
    /\ last.result = ERR_SAME_OWNER
    /\ ApprovalOf(tokens, TokenArg, Caller) = last.approval_id

\* C20 (as claimed): the owner's revoke of an account that is not in the
\* token's approval map fails and leaves the approval map unchanged.  (The
\* claim also names the error, ApprovalNotFound; what is stated here is the
\* part any error would satisfy.)
C20_RevokeMissingIsError ==
    (last.op = "nft_revoke"
        /\ last.before.owner_by_id[TokenArg] = Some(Caller)
        /\ ApprovalOf(last.before, TokenArg, AccountArg) = None)
        => /\ ~Ok
           /\ tokens.approvals_by_id = last.before.approvals_by_id

\* C20 (amended): the owner's revoke, with 1 yoctoNEAR, of an account that is
\* not in the token's approval map succeeds as a no-op: the approval map and
\* the rest of the contract are unchanged and nothing is refunded; no revoke of
\* a missing approval, failed or not, changes the contract.
C20_RevokeMissingIsNoOp ==
    (last.op = "nft_revoke"
        /\ last.before.owner_by_id[TokenArg] # None
        /\ ApprovalOf(last.before, TokenArg, AccountArg) = None)
        => /\ tokens = last.before
           /\ last.refunds = <<>>
           /\ ErrorKind(last.result) # "ApprovalNotFound"
           /\ (Caller = Unwrap(last.before.owner_by_id[TokenArg])
                  /\ last.deposit = 1) => Ok

\* the owner revokes an account that is not approved while another one is
C20_Witness ==
    /\ last.op = "nft_revoke" /\ Ok
    /\ ApprovalOf(last.before, TokenArg, AccountArg) = None
    /\ last.before.approvals_by_id[TokenArg] # None

-----------------------------------------------------------------------------
(* Integer width; the lifetime of a token *)

\* C21 (as claimed, for the one accounting computation that can leave its
\* width, approval_id + 1 on u64): an approve called when the token's counter
\* is at u64::MAX aborts with no state change, and the counter stays above
\* every id issued for the token, so no approve issues an id smaller than or
\* equal to a previous one.
C21_OverflowAborts ==
    /\ (last.op = "nft_approve"
           /\ NextApprovalId(last.before, TokenArg) = U64_MAX)
          => /\ ~Ok
             /\ tokens = last.before
    /\ \A t \in TokenIds :
          \A i \in 1..Len(issued[t]) : issued[t][i] < NextApprovalId(tokens, t)

\* C22: no exported method removes a token: a token whose mint has succeeded
\* exists in every later state (nft_token is never none for it again), the
\* total supply never decreases, grows by one with each successful mint and by
\* nothing else, and equals the number of ids minted; a mint succeeds only on
\* an id that does not exist, so no id is minted twice.
C22_TokensNeverDestroyed ==
    /\ \A t \in minted : nft_token(tokens, t) # None
    /\ nft_total_supply(tokens) = Cardinality(minted)
    /\ (last.op # "idle" /\ tokens # last.before)
          => /\ \A t \in TokenIds :
                   nft_token(last.before, t) # None => nft_token(tokens, t) # None
             /\ nft_total_supply(tokens) >= nft_total_supply(last.before)
    /\ (IsMint /\ Ok)
          => nft_total_supply(tokens) = nft_total_supply(last.before) + 1
    /\ (last.op # "idle" /\ ~(IsMint /\ Ok) /\ tokens # last.before)
          => nft_total_supply(tokens) = nft_total_supply(last.before)
    /\ IsMint
          => /\ Ok => last.before.owner_by_id[TokenArg] = None
             /\ last.before.owner_by_id[TokenArg] # None => ~Ok

\* a second mint of an id whose token has since moved to another owner
C22_Witness ==
    /\ IsMint
    /\ TokenArg \in minted
    /\ last.result = ERR_UNIQUE
    /\ last.before.owner_by_id[TokenArg] # Some("alice")
    /\ \E c \in Accounts :
          /\ c # Unwrap(last.before.owner_by_id[TokenArg])
          /\ last.before.tokens_per_owner[c] = {}
          /\ ApprovalOf(last.before, TokenArg, c) # None

====
